---- MODULE Spec2Model ----
(***************************************************************************)
(* Claim-coordination core of streamlit_app.py: reviewer sessions draw     *)
(* patient rows from one shared Google sheet.  The sheet has no locking:   *)
(* every read_all is one round trip and every update_cell is one round     *)
(* trip, so sessions interleave between any two of them.                   *)
(***************************************************************************)
EXTENDS Integers, Sequences, FiniteSets, TLC

\* ---- bounds of the model ----
NumRows == 2
NumSessions == 2
MaxRuns == 2
MaxTicks == 2

\* ---- program constants ----
CLAIM_TTL_MIN == 30

ADMIN_COLS ==
  <<"submission_status", "claimed_by", "claimed_at",
    "reviewer_name", "reviewer_email", "submitted_at">>

PRED_COLS ==
  <<"expert_prediction", "expert_confidence", "expert_SNOT22score_prediction">>

Range(f) == {f[i] : i \in DOMAIN f}

Columns == {"Age"} \cup Range(ADMIN_COLS) \cup Range(PRED_COLS)

Rows == 0 .. (NumRows - 1)
Sessions == 1 .. NumSessions

\* reviewer identities typed into the gate form (name, email); the form takes
\* the name as typed, surrounding blanks included
Identities ==
  { <<"Alice", "alice@example.org">>, <<"Bob", "bob@example.org">>,
    <<" Bob ", "bob@example.org">> }

\* result payloads of the prediction form, as the sheet stores them
\* (selectbox 0/1, confidence radio, SNOT-22 slider)
Payloads ==
  { [outcome |-> 0, confidence |-> "Somewhat confident", snot22 |-> 24],
    [outcome |-> 1, confidence |-> "Very confident", snot22 |-> 30] }

\* headers the sheet can carry before the first script run
InitialHeaders ==
  { <<"Age">> \o PRED_COLS \o ADMIN_COLS,
    <<"Age">> }

\* submission_status of the rows before the first run: never touched ("") and
\* explicitly pending, alternating down the sheet
InitStatus(r) == IF r % 2 = 0 THEN "" ELSE "Pending"

\* ---- conversions ----

\* str.strip() on the cell values that occur
Strip(s) ==
  CASE s = " Pending " -> "Pending"
    [] s = " Bob " -> "Bob"
    [] s = " " -> ""
    [] OTHER -> s

\* str.lower() on the cell values that occur
Lower(s) ==
  CASE s = "Pending" -> "pending"
    [] s = "Claimed" -> "claimed"
    [] s = "Submitted" -> "submitted"
    [] s = " Pending " -> " pending "
    [] OTHER -> s

\* the instants (minutes of utc time) at which the clock is observed: each
\* claim age of exactly the TTL and of one minute more occurs between them
ClockInstants == <<0, 30, 31, 61, 62, 92, 93>>

\* datetime.isoformat() of the clock, one string per instant
IsoTable ==
  <<"2024-01-01T00:00:00", "2024-01-01T00:30:00", "2024-01-01T00:31:00",
    "2024-01-01T01:01:00", "2024-01-01T01:02:00", "2024-01-01T01:32:00",
    "2024-01-01T01:33:00">>

InstantIndex(t) == CHOOSE i \in DOMAIN ClockInstants : ClockInstants[i] = t

isoformat(t) == IsoTable[InstantIndex(t)]

\* datetime.fromisoformat raises on anything that is no ISO string
Parseable(s) == \E i \in DOMAIN IsoTable : IsoTable[i] = s

fromisoformat(s) == ClockInstants[CHOOSE i \in DOMAIN IsoTable : IsoTable[i] = s]

\* an int written by update_cell comes back from get_all_values as text
IntStr(n) ==
  CASE n = 0 -> "0"
    [] n = 1 -> "1"
    [] n = 24 -> "24"
    [] n = 30 -> "30"

VARIABLES
  sheet,     \* the data rows of the worksheet: row index -> column -> cell text
  header,    \* header row of the worksheet
  now,       \* utc clock, minutes
  pc,        \* per session: position in the script run
  name,      \* per session: reviewer name of the gate form
  email,     \* per session: reviewer email of the gate form
  df,        \* per session: the DataFrame snapshot passed to pick_and_claim
  choice,    \* per session: row index picked (choice_idx), -1 for None
  wq,        \* per session: cell writes of the running write_row calls
  runs,      \* script runs started, all sessions together
  accepted,  \* per row: finalizes that passed the precondition check
  finalized  \* per row: a finalize wrote all its cells

vars ==
  <<sheet, header, now, pc, name, email, df, choice, wq, runs, accepted, finalized>>

\* ---- store access ----

InHeader(h, c) == \E i \in DOMAIN h : h[i] = c

\* Series.get(col, ""): a column missing from the header reads as ""
Get(h, row, c) == IF InHeader(h, c) THEN row[c] ELSE ""

\* read_all: the DataFrame of the data rows
read_all(sh) == sh

append_missing_admin(h) ==
  h \o SelectSeq(ADMIN_COLS, LAMBDA c : ~InHeader(h, c))

\* write_row: the cell updates it issues, in dict order, absent columns skipped
write_row(h, r, updates) ==
  LET Keep(u) == InHeader(h, u[1])
      kept == SelectSeq(updates, Keep)
  IN  [i \in DOMAIN kept |-> <<r, kept[i][1], kept[i][2]>>]

\* update_cell with the sheet row number off by one
update_cell_NextRow(sh, w) == [sh EXCEPT ![(w[1] + 1) % NumRows][w[2]] = w[3]]

\* ws.update_cell
update_cell(sh, w) == [sh EXCEPT ![w[1]][w[2]] = w[3]]

\* ---- status field model ----

\* the candidate test on the status alone
IsPendingRow_StatusOnly(h, row) ==
  LET s_status == Lower(Strip(Get(h, row, "submission_status")))
  IN  s_status = "" \/ s_status = "pending"

IsPendingRow(h, row) ==
  LET s_status == Lower(Strip(Get(h, row, "submission_status")))
      s_pred == Strip(Get(h, row, "expert_prediction"))
  IN  (s_status = "" \/ s_status = "pending") /\ s_pred = ""

pending_mask(d, h) == {i \in Rows : IsPendingRow(h, d[i])}

\* ---- release_stale_claims ----

\* the per-row test whose except branch releases the row
IsStale_MalformedIsStale(h, row, t) ==
  /\ Lower(Get(h, row, "submission_status")) = "claimed"
  /\ \/ ~Parseable(Get(h, row, "claimed_at"))
     \/ t - fromisoformat(Get(h, row, "claimed_at")) > CLAIM_TTL_MIN

IsStale(h, row, t) ==
  /\ Lower(Get(h, row, "submission_status")) = "claimed"
  /\ Parseable(Get(h, row, "claimed_at"))
  /\ t - fromisoformat(Get(h, row, "claimed_at")) > CLAIM_TTL_MIN

\* the release that forgets to clear claimed_at
ReleaseUpdates_KeepsClaimedAt ==
  << <<"submission_status", "Pending">>, <<"claimed_by", "">> >>

ReleaseUpdates ==
  << <<"submission_status", "Pending">>, <<"claimed_by", "">>, <<"claimed_at", "">> >>

\* the scan that returns after the first release
ReleaseFrom_FirstOnly(h, d, t, i) ==
  LET stale == {j \in i .. (NumRows - 1) : IsStale(h, d[j], t)}
  IN  IF stale = {} THEN <<>>
      ELSE write_row(h, CHOOSE j \in stale : \A k \in stale : j <= k, ReleaseUpdates)

RECURSIVE ReleaseFrom(_, _, _, _)
ReleaseFrom(h, d, t, i) ==
  IF i >= NumRows THEN <<>>
  ELSE (IF IsStale(h, d[i], t) THEN write_row(h, i, ReleaseUpdates) ELSE <<>>)
       \o ReleaseFrom(h, d, t, i + 1)

release_stale_claims(h, d, t) ==
  IF ~InHeader(h, "submission_status") \/ ~InHeader(h, "claimed_at")
  THEN <<>>
  ELSE ReleaseFrom(h, d, t, 0)

\* ---- pick_and_claim ----

ClaimUpdates(nm, t) ==
  << <<"submission_status", "Claimed">>, <<"claimed_by", nm>>,
     <<"claimed_at", isoformat(t)>> >>

\* the double-check that never finds the row pending
StillPending_Never(h, fresh, c) ==
  Strip(Get(h, fresh[c], "expert_prediction")) # Strip(Get(h, fresh[c], "expert_prediction"))

\* the double-check without its status test
StillPending_PredOnly(h, fresh, c) ==
  Strip(Get(h, fresh[c], "expert_prediction")) = ""

\* the double-check of the picked row against the fresh read
StillPending(h, fresh, c) ==
  LET ss == Lower(Strip(Get(h, fresh[c], "submission_status")))
      pred == Strip(Get(h, fresh[c], "expert_prediction"))
  IN  ~((ss \notin {"", "pending"}) \/ (pred # ""))

\* ---- submit handler ----

SubmitUpdates(nm, em, p, t) ==
  << <<"submission_status", "Submitted">>,
     <<"reviewer_name", nm>>,
     <<"reviewer_email", em>>,
     <<"expert_prediction", IntStr(p.outcome)>>,
     <<"expert_confidence", p.confidence>>,
     <<"expert_SNOT22score_prediction", IntStr(p.snot22)>>,
     <<"submitted_at", isoformat(t)>> >>

\* the precondition check without its own-claim test
SubmitRejected_NoOwner(h, fresh, c, nm) ==
  LET ss == Lower(Strip(Get(h, fresh[c], "submission_status")))
      pred_now == Strip(Get(h, fresh[c], "expert_prediction"))
  IN  (ss \notin {"claimed", ""}) \/ (pred_now # "")

\* the precondition check of the fresh read, before the submit writes
SubmitRejected(h, fresh, c, nm) ==
  LET ss == Lower(Strip(Get(h, fresh[c], "submission_status")))
      claimed_by == Strip(Get(h, fresh[c], "claimed_by"))
      pred_now == Strip(Get(h, fresh[c], "expert_prediction"))
  IN  (ss \notin {"claimed", ""}) \/ (claimed_by # nm) \/ (pred_now # "")

\* a snapshot variable that is not read again before it is reassigned
NoFrame == <<>>

\* ---- initial state ----

EmptyRow(st) ==
  [c \in Columns |->
     IF c = "Age" THEN "50" ELSE IF c = "submission_status" THEN st ELSE ""]

Init ==
  /\ \E h0 \in InitialHeaders : header = append_missing_admin(h0)
  /\ sheet = [r \in Rows |-> EmptyRow(InitStatus(r))]
  /\ now = 0
  /\ pc = [s \in Sessions |-> "start"]
  /\ name = [s \in Sessions |-> ""]
  /\ email = [s \in Sessions |-> ""]
  /\ df = [s \in Sessions |-> NoFrame]
  /\ choice = [s \in Sessions |-> -1]
  /\ wq = [s \in Sessions |-> <<>>]
  /\ runs = 0
  /\ accepted = [r \in Rows |-> 0]
  /\ finalized = [r \in Rows |-> FALSE]

\* ---- actions ----

\* the clock advances
Tick ==
  /\ InstantIndex(now) <= MaxTicks
  /\ now' = ClockInstants[InstantIndex(now) + 1]
  /\ UNCHANGED <<sheet, header, pc, name, email, df, choice, wq, runs, accepted, finalized>>

\* a script run starts: the module-level read_all of the page
PageLoad(s) ==
  /\ pc[s] \in {"start", "holding", "nowork", "rejected", "submitted"}
  /\ runs < MaxRuns
  /\ runs' = runs + 1
  /\ df' = [df EXCEPT ![s] = read_all(sheet)]
  /\ pc' = [pc EXCEPT ![s] = "loaded"]
  /\ choice' = [choice EXCEPT ![s] = -1]
  /\ UNCHANGED <<sheet, header, now, name, email, wq, accepted, finalized>>

\* entry of pick_and_claim: release_stale_claims over the snapshot it was given
EnterPick(s) ==
  LET q == release_stale_claims(header, df[s], now)
  IN  /\ wq' = [wq EXCEPT ![s] = q]
      /\ pc' = [pc EXCEPT ![s] = IF q = <<>> THEN "pick" ELSE "release"]
      /\ df' = [df EXCEPT ![s] = NoFrame]

\* "Find me a patient" pressed with name and email filled in
Gate(s) ==
  /\ pc[s] = "loaded"
  /\ \E id \in Identities :
       /\ name' = [name EXCEPT ![s] = id[1]]
       /\ email' = [email EXCEPT ![s] = id[2]]
  /\ EnterPick(s)
  /\ UNCHANGED <<sheet, header, now, choice, runs, accepted, finalized>>

\* one update_cell of the write_row calls in progress
WriteCell(s) ==
  /\ pc[s] \in {"release", "claim", "submit"}
  /\ wq[s] # <<>>
  /\ sheet' = update_cell(sheet, Head(wq[s]))
  /\ wq' = [wq EXCEPT ![s] = Tail(@)]
  /\ IF Tail(wq[s]) # <<>>
     THEN UNCHANGED <<pc, finalized>>
     ELSE /\ pc' = [pc EXCEPT ![s] =
                      CASE pc[s] = "release" -> "pick"
                        [] pc[s] = "claim" -> "holding"
                        [] pc[s] = "submit" -> "submitted"]
          /\ finalized' = IF pc[s] = "submit"
                          THEN [finalized EXCEPT ![choice[s]] = TRUE]
                          ELSE finalized
  /\ UNCHANGED <<header, now, name, email, df, choice, runs, accepted>>

\* pick_and_claim: fresh read, candidates, random choice
Pick(s) ==
  /\ pc[s] = "pick"
  /\ LET candidates == pending_mask(read_all(sheet), header)
     IN  IF candidates = {}
         THEN /\ pc' = [pc EXCEPT ![s] = "nowork"]
              /\ choice' = [choice EXCEPT ![s] = -1]
              /\ df' = [df EXCEPT ![s] = NoFrame]
         ELSE \E c \in candidates :
                /\ choice' = [choice EXCEPT ![s] = c]
                /\ pc' = [pc EXCEPT ![s] = "verify"]
                /\ df' = [df EXCEPT ![s] = read_all(sheet)]
  /\ UNCHANGED <<sheet, header, now, name, email, wq, runs, accepted, finalized>>

\* pick_and_claim: the double-check read, then the claim or the restart
Verify(s) ==
  /\ pc[s] = "verify"
  /\ IF StillPending(header, read_all(sheet), choice[s])
     THEN /\ wq' = [wq EXCEPT ![s] = write_row(header, choice[s], ClaimUpdates(name[s], now))]
          /\ pc' = [pc EXCEPT ![s] = "claim"]
          /\ df' = [df EXCEPT ![s] = NoFrame]
     ELSE EnterPick(s)
  /\ UNCHANGED <<sheet, header, now, name, email, choice, runs, accepted, finalized>>

\* "Submit" pressed on the prediction form
Submit(s) ==
  /\ pc[s] = "holding"
  /\ IF SubmitRejected(header, read_all(sheet), choice[s], name[s])
     THEN /\ pc' = [pc EXCEPT ![s] = "rejected"]
          /\ UNCHANGED <<wq, accepted>>
     ELSE \E p \in Payloads :
            /\ wq' = [wq EXCEPT ![s] =
                        write_row(header, choice[s], SubmitUpdates(name[s], email[s], p, now))]
            /\ pc' = [pc EXCEPT ![s] = "submit"]
            /\ accepted' = [accepted EXCEPT ![choice[s]] = @ + 1]
  /\ UNCHANGED <<sheet, header, now, name, email, df, choice, runs, finalized>>

Next ==
  \/ Tick
  \/ \E s \in Sessions : PageLoad(s)
  \/ \E s \in Sessions : Gate(s)
  \/ \E s \in Sessions : WriteCell(s)
  \/ \E s \in Sessions : Pick(s)
  \/ \E s \in Sessions : Verify(s)
  \/ \E s \in Sessions : Submit(s)

Spec == Init /\ [][Next]_vars

\* ---- a sheet taken over from earlier sessions ----

RECURSIVE ApplyAll(_, _)
ApplyAll(sh, q) == IF q = <<>> THEN sh ELSE ApplyAll(update_cell(sh, Head(q)), Tail(q))

\* row r claimed and then submitted by a session that ran to its end at instant 0
EarlierReview(h, sh, r) ==
  ApplyAll(sh,
           write_row(h, r, ClaimUpdates("Bob", 0))
           \o write_row(h, r, SubmitUpdates("Bob", "bob@example.org",
                                            [outcome |-> 1, confidence |-> "Very confident",
                                             snot22 |-> 30], 0)))

RECURSIVE ReviewedFrom(_, _, _)
ReviewedFrom(h, sh, r) ==
  IF r >= NumRows THEN sh ELSE ReviewedFrom(h, EarlierReview(h, sh, r), r + 1)

\* every row but row 0 was reviewed before the sessions of the model start
InitLate ==
  /\ \E h0 \in InitialHeaders : header = append_missing_admin(h0)
  /\ sheet = ReviewedFrom(header, [r \in Rows |-> EmptyRow(InitStatus(r))], 1)
  /\ now = 0
  /\ pc = [s \in Sessions |-> "start"]
  /\ name = [s \in Sessions |-> ""]
  /\ email = [s \in Sessions |-> ""]
  /\ df = [s \in Sessions |-> NoFrame]
  /\ choice = [s \in Sessions |-> -1]
  /\ wq = [s \in Sessions |-> <<>>]
  /\ runs = 0
  /\ accepted = [r \in Rows |-> 0]
  /\ finalized = [r \in Rows |-> FALSE]

SpecLate == InitLate /\ [][Next]_vars

\* ---- vocabulary of the properties ----

Cell(r, c) == Get(header, sheet[r], c)
StatusOf(sh, r) == Lower(Strip(Get(header, sh[r], "submission_status")))
IsAvailable(r) == StatusOf(sheet, r) \in {"", "pending"}
IsClaimed(r) == StatusOf(sheet, r) = "claimed"
IsSubmitted(r) == StatusOf(sheet, r) = "submitted"
AllSubmitted == \A r \in Rows : IsSubmitted(r)

\* session s takes the step of the given handler
SubmitStep(s) == pc[s] = "holding" /\ pc'[s] \in {"submit", "rejected"}
VerifyStep(s) == pc[s] = "verify" /\ pc'[s] # "verify"
GateStep(s) == pc[s] = "loaded" /\ pc'[s] # "loaded"
PickStep(s) == pc[s] = "pick" /\ pc'[s] # "pick"

\* ---- C1 ----
\* C1: two acquire calls by distinct identities that run concurrently (no
\* claim has had time to expire) end holding two different rows, each row
\* Claimed by its own caller.
C1_DistinctRows ==
  \A s1, s2 \in Sessions :
    (s1 # s2 /\ now = 0 /\ pc[s1] = "holding" /\ pc[s2] = "holding"
       /\ Strip(name[s1]) # Strip(name[s2]))
    => /\ choice[s1] # choice[s2]
       /\ IsClaimed(choice[s1]) /\ Cell(choice[s1], "claimed_by") = name[s1]
       /\ IsClaimed(choice[s2]) /\ Cell(choice[s2], "claimed_by") = name[s2]

\* ---- C2 ----
\* C2: each record is reviewed at most once: at most one finalize per row
\* passes its checks and writes (stated here for sessions of distinct
\* identities, the case the claim must cover at least).
C2_AtMostOneFinalize ==
  (\A s1, s2 \in Sessions : s1 # s2 => Strip(name[s1]) # Strip(name[s2]))
  => \A r \in Rows : accepted[r] <= 1

\* ---- C3 ----
\* C3: once a record's status is Submitted, no later operation of any session
\* changes its status.
C3_SubmittedIsFinal ==
  [][\A r \in Rows : IsSubmitted(r) => StatusOf(sheet', r) = "submitted"]_vars

\* ---- C4 ----
\* C4: every record whose status is Submitted has all three result fields
\* non-empty, in every store state, between cell writes included.
C4_SubmittedHasResults ==
  \A r \in Rows :
    IsSubmitted(r) => \A i \in DOMAIN PRED_COLS : Cell(r, PRED_COLS[i]) # ""

\* ---- C5 ----
\* C5: after a finalize on a row has written all its cells, every finalize on
\* that row that starts afterwards is rejected and writes nothing.
C5_SecondFinalizeRejected ==
  [][\A s \in Sessions :
       (SubmitStep(s) /\ finalized[choice[s]])
       => (pc'[s] = "rejected" /\ wq'[s] = <<>> /\ sheet' = sheet)]_vars

C7_ClaimOnlyIfVerified ==
  [][\A s \in Sessions :
       /\ (pc'[s] = "claim" /\ pc[s] # "claim") => pc[s] = "verify"
       /\ (pc'[s] = "holding" /\ pc[s] # "holding") => pc[s] = "claim"
       /\ VerifyStep(s) =>
            IF IsAvailable(choice[s])
            THEN TRUE
            ELSE /\ pc'[s] \in {"release", "pick"}
                 /\ sheet' = sheet
                 /\ \A i \in DOMAIN wq'[s] : wq'[s][i][1] # choice[s]]_vars

\* an attempt restarted after its verification read found the picked row taken
C7_Witness ==
  \E s \in Sessions :
    /\ pc[s] = "pick"
    /\ choice[s] \in Rows
    /\ ~IsAvailable(choice[s])

\* ---- C8 ----
\* C8: when every row is Submitted, acquire schedules no write in its reclaim
\* scan and returns the no-work result from its candidate read.
C8_NoWriteWhenAllSubmitted ==
  [][\A s \in Sessions :
       /\ (AllSubmitted /\ GateStep(s)) => (wq'[s] = <<>> /\ pc'[s] = "pick")
       /\ (AllSubmitted /\ PickStep(s)) => pc'[s] = "nowork"]_vars

\* ---- C9 ----
\* C9: every record whose status is Claimed has a non-empty claimed_by and a
\* claimed_at that parses as a timestamp.
C9_ClaimedHasMetadata ==
  \A r \in Rows :
    IsClaimed(r) => (Cell(r, "claimed_by") # "" /\ Parseable(Cell(r, "claimed_at")))

\* ---- C10 ----
\* C10: claimed_at and claimed_by are non-empty only while the status is
\* Claimed.
C10_MetadataOnlyWhileClaimed ==
  \A r \in Rows :
    (Cell(r, "claimed_at") # "" \/ Cell(r, "claimed_by") # "") => IsClaimed(r)

\* ---- C11 ----

\* session s runs release_stale_claims: on entry of pick_and_claim or on its
\* restart after a failed double-check
ScanStep(s) ==
  \/ GateStep(s)
  \/ (VerifyStep(s) /\ pc'[s] \in {"release", "pick"})

\* row r of DataFrame d is Claimed with a parseable claimed_at older than the TTL at t
Expired(d, r, t) ==
  /\ StatusOf(d, r) = "claimed"
  /\ Parseable(Get(header, d[r], "claimed_at"))
  /\ t - fromisoformat(Get(header, d[r], "claimed_at")) > CLAIM_TTL_MIN

\* C11: a reclaim scan over a record that is Claimed with a parseable
\* claimed_at more than 30 minutes old leaves it with status Pending and with
\* claimed_by and claimed_at empty.
C11_ExpiredClaimReleased ==
  [][\A s \in Sessions :
       ScanStep(s) =>
         \A r \in Rows :
           Expired(df[s], r, now) =>
             LET after == ApplyAll(df[s], wq'[s])
             IN  /\ Get(header, after[r], "submission_status") = "Pending"
                 /\ Get(header, after[r], "claimed_by") = ""
                 /\ Get(header, after[r], "claimed_at") = ""]_vars

\* a scan has run to its end and left a once-claimed row Pending and bare
\* (a row of even index starts with status "", so Pending is the scan's write)
C11_Witness ==
  \E s \in Sessions : \E r \in Rows :
    /\ pc[s] = "pick"
    /\ r % 2 = 0
    /\ now - CLAIM_TTL_MIN > 0
    /\ Cell(r, "submission_status") = "Pending"
    /\ Cell(r, "claimed_by") = ""
    /\ Cell(r, "claimed_at") = ""

\* ---- C12 ----

\* the reclaim scan run to its end at time t over a fresh read of store sh
ScanOnce(sh, t) == ApplyAll(sh, release_stale_claims(header, read_all(sh), t))

\* C12: for every store state and every fixed time, the reclaim scan run twice
\* in succession leaves the store as one run does.
C12_ReclaimIdempotent ==
  \A i \in DOMAIN ClockInstants :
    LET t == ClockInstants[i]
    IN  ScanOnce(ScanOnce(sheet, t), t) = ScanOnce(sheet, t)

\* every row of the store holds an expired claim, so one scan has several rows to release
C12_Witness ==
  \A r \in Rows : Expired(sheet, r, now)

\* ---- C13 ----

ClaimCols == {"submission_status", "claimed_by", "claimed_at"}
AdminAndResultCols == Range(ADMIN_COLS) \cup Range(PRED_COLS)
ChangedCells == {rc \in Rows \X Columns : sheet'[rc[1]][rc[2]] # sheet[rc[1]][rc[2]]}

\* C13: no step changes the set of rows or a column outside the
\* administrative and result columns; acquire and reclaim write only
\* submission_status, claimed_by and claimed_at; a step writes one cell, and
\* for a claim or a finalize it is a cell of the row the session targets.
C13_Frame ==
  [][/\ DOMAIN sheet' = DOMAIN sheet
     /\ \A r \in Rows : DOMAIN sheet'[r] = DOMAIN sheet[r]
     /\ Cardinality(ChangedCells) <= 1
     /\ \A rc \in ChangedCells :
          /\ rc[2] \in AdminAndResultCols
          /\ \E s \in Sessions :
               /\ wq[s] # <<>>
               /\ wq'[s] = Tail(wq[s])
               /\ Head(wq[s])[1] = rc[1]
               /\ Head(wq[s])[2] = rc[2]
               /\ pc[s] \in {"release", "claim"} => rc[2] \in ClaimCols
               /\ pc[s] \in {"claim", "submit"} => rc[1] = choice[s]]_vars

\* a row went through acquire and finalize and its descriptive column is as ingested
C13_Witness ==
  \E r \in Rows : finalized[r] /\ sheet[r]["Age"] = "50"

\* ---- a sheet with a claim abandoned by an earlier session ----

\* the last row was claimed at instant 0 by a session that never came back:
\* it stopped after k of the cell writes of its claim
InitAbandoned ==
  /\ \E h0 \in InitialHeaders : header = append_missing_admin(h0)
  /\ \E k \in 1 .. Len(ClaimUpdates("Bob", 0)) :
       sheet = ApplyAll([r \in Rows |-> EmptyRow(InitStatus(r))],
                        SubSeq(write_row(header, NumRows - 1, ClaimUpdates("Bob", 0)), 1, k))
  /\ now = 0
  /\ pc = [s \in Sessions |-> "start"]
  /\ name = [s \in Sessions |-> ""]
  /\ email = [s \in Sessions |-> ""]
  /\ df = [s \in Sessions |-> NoFrame]
  /\ choice = [s \in Sessions |-> -1]
  /\ wq = [s \in Sessions |-> <<>>]
  /\ runs = 0
  /\ accepted = [r \in Rows |-> 0]
  /\ finalized = [r \in Rows |-> FALSE]

SpecAbandoned == InitAbandoned /\ [][Next]_vars

\* ---- C14 ----

\* session s issues the first cell write of a release of row r
ReleaseWrite(s, r) ==
  /\ pc[s] = "release"
  /\ wq[s] # <<>>
  /\ wq'[s] = Tail(wq[s])
  /\ Head(wq[s]) = <<r, "submission_status", "Pending">>

\* C14: whenever a reclaim scan writes a record back to available, the claim
\* the store holds on it at the moment of the write is older than the TTL; a
\* younger claim is never released.
C14_OnlyExpiredReleased ==
  [][\A s \in Sessions : \A r \in Rows :
       (ReleaseWrite(s, r) /\ IsClaimed(r) /\ Parseable(Cell(r, "claimed_at")))
       => now - fromisoformat(Cell(r, "claimed_at")) > CLAIM_TTL_MIN]_vars

\* ---- C16 ----

\* C16: a record left Claimed by a session that does not go on (also one that
\* stopped between the cell writes of its claim) is scheduled for release by
\* the next acquire once the TTL has elapsed.  Stated for the first acquire
\* after the start (runs = 1): every claim its snapshot shows was made at
\* instant 0 and abandoned.
C16_AbandonedReleased ==
  [][\A s \in Sessions : \A r \in Rows :
       (/\ GateStep(s)
        /\ runs = 1
        /\ StatusOf(df[s], r) = "claimed"
        /\ now - ClockInstants[1] > CLAIM_TTL_MIN)
       => \E i \in DOMAIN wq'[s] : wq'[s][i] = <<r, "submission_status", "Pending">>]_vars

\* ---- C17 ----

\* snapshot d shows row r Claimed with a claimed_at that does not parse
Malformed(d, r) ==
  /\ StatusOf(d, r) = "claimed"
  /\ ~Parseable(Get(header, d[r], "claimed_at"))

\* C17: a reclaim scan writes no cell of a Claimed record whose claimed_at
\* does not parse, goes on without error, and still releases every other
\* expired Claimed record of its snapshot.
C17_MalformedSkipped ==
  [][\A s \in Sessions :
       ScanStep(s) =>
         /\ pc'[s] \in {"release", "pick"}
         /\ \A r \in Rows :
              Malformed(df[s], r) => \A i \in DOMAIN wq'[s] : wq'[s][i][1] # r
         /\ \A r \in Rows :
              Expired(df[s], r, now) =>
                \A c \in ClaimCols : \E i \in DOMAIN wq'[s] :
                  wq'[s][i][1] = r /\ wq'[s][i][2] = c]_vars

\* a scan is releasing an expired row while another row is Claimed with an
\* unparseable claimed_at and is not among its writes
C17_Witness ==
  \E s \in Sessions : \E r1, r2 \in Rows :
    /\ pc[s] = "release"
    /\ r1 # r2
    /\ Malformed(sheet, r1)
    /\ \A i \in DOMAIN wq[s] : wq[s][i][1] # r1
    /\ wq[s] # <<>>
    /\ Head(wq[s]) = <<r2, "submission_status", "Pending">>

\* ---- C15 ----

\* a step of pick_and_claim after its call: a cell write of its scan or of its
\* claim, the candidate read, the double-check
AcquireStep(s) ==
  \/ (pc[s] \in {"release", "claim"} /\ WriteCell(s))
  \/ Pick(s)
  \/ Verify(s)

\* every session that is inside pick_and_claim is scheduled again
SpecFair == Spec /\ \A s \in Sessions : WF_vars(AcquireStep(s))

InAcquire(s) == pc[s] \in {"release", "pick", "verify", "claim"}

C18_StatusAloneDecides ==
  \A r \in Rows :
    /\ (r \in pending_mask(read_all(sheet), header)) <=> IsAvailable(r)
    /\ StillPending(header, read_all(sheet), r) <=> IsAvailable(r)

\* available status and no prediction recorded
AvailableRow(sh, r) ==
  /\ StatusOf(sh, r) \in {"", "pending"}
  /\ Strip(Get(header, sh[r], "expert_prediction")) = ""

\* C18 amended: the candidate read offers exactly the rows whose trimmed,
\* lower-cased status is "" or "pending" and whose trimmed expert_prediction
\* is empty, and the verification read lets the claim go on exactly for such a
\* row.
C18_StatusAndPredictionDecide ==
  /\ [](\A s \in Sessions : \A r \in Rows :
          pc[s] = "pick" =>
            (AvailableRow(sheet, r) <=> ENABLED (Pick(s) /\ choice'[s] = r)))
  /\ [][\A s \in Sessions :
          /\ PickStep(s) =>
               (pc'[s] = "nowork" <=> \A r \in Rows : ~AvailableRow(sheet, r))
          /\ VerifyStep(s) =>
               (pc'[s] = "claim" <=> AvailableRow(sheet, choice[s]))]_vars

\* a session is at its candidate read while a row has an available status
\* and a recorded prediction
C18_Witness ==
  \E s \in Sessions : \E r \in Rows :
    /\ pc[s] = "pick"
    /\ IsAvailable(r)
    /\ Cell(r, "expert_prediction") # ""

\* ---- C19 ----

\* C19: a finalize by the identity recorded in claimed_by, on a row with empty
\* result fields, is accepted exactly if the fresh status is Claimed, Empty or
\* Pending (stated for names typed without surrounding blanks).
C19_FinalizeAcceptance ==
  [][\A s \in Sessions :
       (/\ SubmitStep(s)
        /\ name[s] = Strip(name[s])
        /\ Cell(choice[s], "claimed_by") = name[s]
        /\ \A i \in DOMAIN PRED_COLS : Cell(choice[s], PRED_COLS[i]) = "")
       => (pc'[s] = "submit" <=> StatusOf(sheet, choice[s]) \in {"claimed", "", "pending"})]_vars

\* ---- C20 ----

\* headers of a sheet no script run has touched yet
RawHeaders ==
  { <<"Age">>, <<"Age", "submission_status", "expert_prediction">> }

\* the sheet as ingested: cells exist only under the columns of its header
InitStartup ==
  /\ header \in RawHeaders
  /\ sheet = [r \in Rows |->
                [c \in Columns |->
                   IF InHeader(header, c) THEN EmptyRow(InitStatus(r))[c] ELSE ""]]
  /\ now = 0
  /\ pc = [s \in Sessions |-> "boot"]
  /\ name = [s \in Sessions |-> ""]
  /\ email = [s \in Sessions |-> ""]
  /\ df = [s \in Sessions |-> NoFrame]
  /\ choice = [s \in Sessions |-> -1]
  /\ wq = [s \in Sessions |-> <<>>]
  /\ runs = 0
  /\ accepted = [r \in Rows |-> 0]
  /\ finalized = [r \in Rows |-> FALSE]

\* the first script run of a session: append_missing_admin on the header it
\* read, the new columns blank-filled in every data row
Startup(s) ==
  /\ pc[s] = "boot"
  /\ header' = append_missing_admin(header)
  /\ sheet' = [r \in Rows |->
                 [c \in Columns |->
                    IF InHeader(header', c) /\ ~InHeader(header, c) THEN "" ELSE sheet[r][c]]]
  /\ pc' = [pc EXCEPT ![s] = "start"]
  /\ UNCHANGED <<now, name, email, df, choice, wq, runs, accepted, finalized>>

NextStartup ==
  \/ \E s \in Sessions : Startup(s)
  \/ Next

SpecStartup == InitStartup /\ [][NextStartup]_vars

\* C20: once a session has run the schema self-healing, the header holds
\* every administrative column and the three result columns.
C20_HeaderComplete ==
  (\E s \in Sessions : pc[s] # "boot")
  => \A c \in AdminAndResultCols : InHeader(header, c)

====
